---- MODULE Spec2Model ----
(***************************************************************************)
(* Layout model of src/components/report_to_pdf_node.py: the renderers     *)
(* (_create_bar_chart, _create_pie_chart, _draw_styled_table,              *)
(* _draw_metric_cards, _draw_insights_section) and the composer            *)
(* _write_visual_pdf that threads one vertical cursor through them.        *)
(*                                                                         *)
(* Lengths are integers in units of 1/127 point: reportlab's cm is         *)
(* 72/2.54 = 3600/127 points, so a point is 127 units and a cm is 3600     *)
(* units, and every coordinate the code computes is an exact integer.      *)
(*                                                                         *)
(* A text is modelled by the number of lines textwrap.wrap gives for it    *)
(* (0 for an empty or blank string).  A row of the row-set is either a     *)
(* non-mapping or a mapping, kept as the sequence of its (key, value)      *)
(* entries in key order; a value carries its Python type class:            *)
(*   "num"    an int or float (isinstance(v, (int, float)) holds),         *)
(*   "numstr" a string float() converts,                                   *)
(*   "str"    a string float() rejects,                                    *)
(*   "none"   None (float() rejects it).                                   *)
(*                                                                         *)
(* The canvas and the cursor travel together as a record                   *)
(*   [y, page, ops, exc]                                                   *)
(* y the cursor, page the number of the current page, ops the drawing      *)
(* operations done so far in order, exc whether the renderer raised.       *)
(*                                                                         *)
(* The component VisualReportToPDF.build_pdf is modelled around the        *)
(* composer: fs is the file system at the output path (whether the output  *)
(* folder exists, whether mkdir was called, whether the file was written   *)
(* by c.save()), result is what build_pdf gave back to its caller.         *)
(***************************************************************************)
EXTENDS Integers, Sequences, FiniteSets, TLC

VARIABLES pc, y, page, ops, report, query_data, chart_type, arg, fs, result

vars == <<pc, y, page, ops, report, query_data, chart_type, arg, fs, result>>

----------------------------------------------------------------------------
(* Units and page geometry *)

pt == 127

cm == 3600

\* A4 = (210*mm, 297*mm)
page_height == (297 * cm) \div 10

\* the y every page break resets the cursor to
top_y == 27 * cm

Min(a, b) == IF a < b THEN a ELSE b

----------------------------------------------------------------------------
(* Python values *)

\* the value None of an unset key_field / value_field / numeric_field
None == "<None>"

\* `not f` for a field name: None and the empty string are both falsy
Falsy(f) == f = None \/ f = ""

\* list(row.keys())
keys(row) == [j \in 1..Len(row.items) |-> row.items[j].k]

has_key(row, key) == \E j \in 1..Len(row.items) : row.items[j].k = key

\* row[key], for a key the row has
entry(row, key) == row.items[CHOOSE j \in 1..Len(row.items) : row.items[j].k = key]

\* isinstance(row.get(key), (int, float))
is_numeric(row, key) == has_key(row, key) /\ entry(row, key).t = "num"

\* variant of to_float: only a value that is a number already converts
to_float_numbers_only(row, key) ==
    IF ~has_key(row, key) THEN 0
    ELSE IF entry(row, key).t = "num" THEN entry(row, key).v
    ELSE 0

\* try: float(row.get(key, 0))  except: 0
to_float(row, key) ==
    IF ~has_key(row, key) THEN 0
    ELSE IF entry(row, key).t \in {"num", "numstr"} THEN entry(row, key).v
    ELSE 0

\* data[:n]
Take(s, n) == SubSeq(s, 1, Min(Len(s), n))

\* `not data or not isinstance(data, list)`
not_a_nonempty_list(data) == data.type # "list" \/ data.rows = <<>>

RECURSIVE SumSeq(_)
SumSeq(s) == IF s = <<>> THEN 0 ELSE s[1] + SumSeq(Tail(s))

----------------------------------------------------------------------------
(* Drawing operations *)

\* one drawing operation: kind k, section s, index i, page p, position yy,
\* size or count n; a chart also has its values and the two fields it is
\* built from
Op(k, s, i, p, yy, n) ==
    [k |-> k, s |-> s, i |-> i, p |-> p, y |-> yy, n |-> n, vals |-> <<>>,
     key_field |-> None, value_field |-> None]

\* c.drawString / c.roundRect / renderPDF.draw / t.drawOn on the current page
draw(st, op) == [st EXCEPT !.ops = Append(@, op)]

\* c.showPage()
showPage(st) == [st EXCEPT !.page = @ + 1]

moveTo(st, yy) == [st EXCEPT !.y = yy]

----------------------------------------------------------------------------
(* Chart renderers *)

\* key_field auto-detection: the first key of row 0
detect_key_field(data, key_field) ==
    IF Falsy(key_field) /\ data.rows[1].dict
    THEN IF Len(data.rows[1].items) > 0 THEN keys(data.rows[1])[1] ELSE None
    ELSE key_field

\* value_field auto-detection: the second key of row 0, or its only key
detect_value_field(data, value_field) ==
    IF Falsy(value_field) /\ data.rows[1].dict
    THEN IF Len(data.rows[1].items) > 1 THEN keys(data.rows[1])[2]
         ELSE IF Len(data.rows[1].items) > 0 THEN keys(data.rows[1])[1]
         ELSE None
    ELSE value_field

\* the rows among data[:cap] that are mappings: the loop's isinstance filter
chart_rows(data, cap) == SelectSeq(Take(data.rows, cap), LAMBDA row : row.dict)

\* the values list: one coerced value per mapping row within the cap
chart_values(data, cap, value_field) ==
    [j \in 1..Len(chart_rows(data, cap)) |-> to_float(chart_rows(data, cap)[j], value_field)]

\* the labels list: one label per mapping row within the cap (1 = the row
\* has the key field, 0 = the default "")
chart_labels(data, cap, key_field) ==
    [j \in 1..Len(chart_rows(data, cap)) |->
        IF has_key(chart_rows(data, cap)[j], key_field) THEN 1 ELSE 0]

\* renderPDF.draw(d, c, x, y - height): one chart of the kind on the page
chart_op(kind, st, height, key_field, value_field, labels, values) ==
    [k |-> kind, s |-> "chart", i |-> Len(labels), p |-> st.page, y |-> st.y,
     n |-> height, vals |-> values, key_field |-> key_field, value_field |-> value_field]

bar_cap == 10

_create_bar_chart(st, data, height, key_field, value_field) ==
    IF not_a_nonempty_list(data) THEN st
    ELSE LET kf == detect_key_field(data, key_field)
             vf == detect_value_field(data, value_field)
         IN IF Falsy(kf) \/ Falsy(vf) THEN st
            ELSE LET labels == chart_labels(data, bar_cap, kf)
                     values == chart_values(data, bar_cap, vf)
                 IN IF values = <<>> THEN st
                    ELSE moveTo(draw(st, chart_op("bar", st, height, kf, vf, labels, values)),
                                st.y - height - 20 * pt)

\* variant of _create_pie_chart: a value sum of 0 is not looked at
_create_pie_chart_any_sum(st, data, height, key_field, value_field) ==
    IF not_a_nonempty_list(data) THEN st
    ELSE LET kf == detect_key_field(data, key_field)
             vf == detect_value_field(data, value_field)
         IN IF Falsy(kf) \/ Falsy(vf) THEN st
            ELSE LET labels == chart_labels(data, 8, kf)
                     values == chart_values(data, 8, vf)
                 IN IF values = <<>> THEN st
                    ELSE moveTo(draw(st, chart_op("pie", st, height, kf, vf, labels, values)),
                                st.y - height - 20 * pt)

pie_cap == 8

_create_pie_chart(st, data, height, key_field, value_field) ==
    IF not_a_nonempty_list(data) THEN st
    ELSE LET kf == detect_key_field(data, key_field)
             vf == detect_value_field(data, value_field)
         IN IF Falsy(kf) \/ Falsy(vf) THEN st
            ELSE LET labels == chart_labels(data, pie_cap, kf)
                     values == chart_values(data, pie_cap, vf)
                 IN IF values = <<>> \/ SumSeq(values) = 0 THEN st
                    ELSE moveTo(draw(st, chart_op("pie", st, height, kf, vf, labels, values)),
                                st.y - height - 20 * pt)

----------------------------------------------------------------------------
(* Header *)

header_height == 3 * cm

_draw_header(st) ==
    moveTo(draw(st, Op("header", "header", 0, st.page, page_height, header_height)),
           page_height - header_height - cm \div 2)

----------------------------------------------------------------------------
(* Styled table *)

\* height of the header row: leading 12, top padding 3, BOTTOMPADDING 10
header_row_height == 25 * pt

\* height of a body row: leading 12, TOPPADDING 6, BOTTOMPADDING 6
body_row_height == 24 * pt

\* h of t.wrapOn(...): the header row and n body rows
table_height(n) == header_row_height + n * body_row_height

\* t.drawOn(c, x, y - h): the header row (i = 0) and the n body rows, each
\* at its top edge, all by the one call, on the page current at the call
RECURSIVE draw_rows(_, _, _)
draw_rows(st, n, j) ==
    IF j > n THEN st
    ELSE draw_rows(
            draw(st, Op("row", "table", j, st.page,
                        IF j = 0 THEN st.y
                        ELSE st.y - header_row_height - (j - 1) * body_row_height,
                        IF j = 0 THEN header_row_height ELSE body_row_height)),
            n, j + 1)

\* the rows loop calls item.get on every row within max_rows, and the column
\* widths divide by the column count
table_raises(data, max_rows) ==
    \/ Len(data.rows[1].items) = 0
    \/ \E j \in 1..Len(Take(data.rows, max_rows)) : ~data.rows[j].dict

\* variant of table_break: the check forgets the table's height
table_break_no_height(st, h) ==
    IF st.y < 2 * cm THEN moveTo(showPage(st), top_y) ELSE st

\* "Check if fits on page"
table_break(st, h) ==
    IF st.y - h < 2 * cm THEN moveTo(showPage(st), top_y) ELSE st

\* the footnote "* Showing max_rows of len(data) total records"
table_footnote(st, data, max_rows) ==
    IF Len(data.rows) > max_rows
    THEN moveTo(draw(st, Op("note", "table", max_rows, st.page, st.y, Len(data.rows))),
                st.y - 15 * pt)
    ELSE st

\* has_title: whether a non-empty title is passed
_draw_styled_table(st, data, has_title, max_rows) ==
    IF not_a_nonempty_list(data) THEN st
    ELSE LET s1 == IF has_title
                   THEN moveTo(draw(st, Op("title", "table", 0, st.page, st.y, 0)),
                               st.y - 20 * pt)
                   ELSE st
         IN IF ~data.rows[1].dict THEN s1
            ELSE IF table_raises(data, max_rows) THEN [s1 EXCEPT !.exc = TRUE]
            ELSE LET n  == Len(Take(data.rows, max_rows))
                     h  == table_height(n)
                     s2 == table_break(s1, h)
                     s3 == moveTo(draw_rows(s2, n, 0), s2.y - h - 10 * pt)
                 IN table_footnote(s3, data, max_rows)

----------------------------------------------------------------------------
(* Metric cards *)

card_height == 2 * cm

spacing == cm \div 2

cards_per_row == 2

max_cards == 10

\* card_y = start_y - row * (card_height + spacing)
card_top(start_y, row) == start_y - row * (card_height + spacing)

\* "Check if need new page"
card_needs_page(card_y) == card_y - card_height < 3 * cm

\* variant of card_start_y: the new page leaves start_y as it was
card_start_y_kept(start_y, i) == start_y

\* start_y after the check of card i
card_start_y(start_y, i) ==
    IF card_needs_page(card_top(start_y, i \div cards_per_row)) THEN top_y ELSE start_y

\* the loop over metrics[:10], from card i (0-based) on, with the loop's
\* start_y; st.y is not touched by the loop
RECURSIVE card_loop(_, _, _, _)
card_loop(st, n, i, start_y) ==
    IF i >= n THEN [st |-> st, start_y |-> start_y]
    ELSE LET row == i \div cards_per_row
             brk == card_needs_page(card_top(start_y, row))
             s1  == IF brk THEN showPage(st) ELSE st
             sy  == card_start_y(start_y, i)
         IN card_loop(draw(s1, Op("card", "metrics", i, s1.page, card_top(sy, row),
                                  card_height)),
                      n, i + 1, sy)

\* variant of total_rows: the division rounds down
total_rows_floor(n) == Min(n, max_cards) \div cards_per_row

\* total_rows = (min(len(metrics), 10) + cards_per_row - 1) // cards_per_row
total_rows(n) == (Min(n, max_cards) + cards_per_row - 1) \div cards_per_row

\* metrics: the sequence of the metric mappings (each by its entry count)
_draw_metric_cards(st, metrics) ==
    IF metrics = <<>> THEN st
    ELSE LET s1 == moveTo(draw(st, Op("title", "metrics", 0, st.page, st.y, 0)),
                          st.y - 25 * pt)
             lp == card_loop(s1, Min(Len(metrics), max_cards), 0, s1.y)
         IN moveTo(lp.st,
                   lp.start_y - total_rows(Len(metrics)) * (card_height + spacing) - 20 * pt)

----------------------------------------------------------------------------
(* Insights, findings, recommendations: one decorated item per entry *)

line_height == 14 * pt

\* the page break inside a list: a new page, the section title with the
\* "(continued)" suffix at the top, the cursor 20 below it
continued(st, sec) ==
    moveTo(draw(moveTo(showPage(st), top_y), Op("cont", sec, 0, st.page + 1, top_y, 0)),
           top_y - 20 * pt)

\* variant of item_break: the new page is taken, the title is not redrawn
item_break_untitled(st, sec, limit) ==
    IF st.y < limit THEN moveTo(showPage(st), top_y) ELSE st

\* the check before an item: below the limit, continue on a new page
item_break(st, sec, limit) == IF st.y < limit THEN continued(st, sec) ELSE st

\* the item's decoration at the cursor and its wrapped lines, line j
\* (0-based) at the cursor lowered by j line heights; then the gap
draw_item(st, sec, i, lines, gap) ==
    moveTo(draw(st, Op("item", sec, i, st.page, st.y, lines)),
           st.y - lines * line_height - gap)

\* the loop over the items (already cut to the cap), from item i (1-based) on
RECURSIVE item_loop(_, _, _, _, _, _)
item_loop(st, items, i, sec, limit, gap) ==
    IF i > Len(items) THEN st
    ELSE item_loop(draw_item(item_break(st, sec, limit), sec, i, items[i], gap),
                   items, i + 1, sec, limit, gap)

insights_cap == 8

_draw_insights_section(st, insights) ==
    IF insights = <<>> THEN st
    ELSE item_loop(moveTo(draw(st, Op("title", "insights", 0, st.page, st.y, 0)),
                          st.y - 20 * pt),
                   Take(insights, insights_cap), 1, "insights", 5 * cm, 8 * pt)

findings_cap == 10

\* the findings block after the section-entry rule: title and loop
findings_block(st, findings) ==
    item_loop(moveTo(draw(st, Op("title", "findings", 0, st.page, st.y, 0)),
                     st.y - 20 * pt),
              Take(findings, findings_cap), 1, "findings", 4 * cm, 5 * pt)

recommendations_cap == 8

\* the recommendations block after the section-entry rule: title and loop
recommendations_block(st, recommendations) ==
    item_loop(moveTo(draw(st, Op("title", "recommendations", 0, st.page, st.y, 0)),
                     st.y - 20 * pt),
              Take(recommendations, recommendations_cap), 1, "recommendations",
              4 * cm, 5 * pt)

----------------------------------------------------------------------------
(* Limitations and Next Steps in two columns *)

column_cap == 5

\* one column's loop; st.y is the column's temp_y.  An item that wraps to
\* no line draws nothing and leaves no gap.
RECURSIVE column_loop(_, _, _, _)
column_loop(st, items, j, sec) ==
    IF j > Len(items) THEN st
    ELSE column_loop(
            IF items[j] > 0
            THEN moveTo(draw(st, Op("item", sec, j, st.page, st.y, items[j])),
                        st.y - items[j] * 12 * pt - 3 * pt)
            ELSE st,
            items, j + 1, sec)

\* one column from the block's cursor y0: its title at y0, its items from
\* 18 below; nothing when the list is empty
column(st, y0, items, sec) ==
    IF items = <<>> THEN st
    ELSE column_loop(moveTo(draw(st, Op("title", sec, 0, st.page, y0, 0)), y0 - 18 * pt),
                     Take(items, column_cap), 1, sec)

\* variant of lowest: the cursor follows the column drawn last
lowest_last(lowest_y, st, items) == IF items = <<>> THEN lowest_y ELSE st.y

\* lowest_y = min(lowest_y, temp_y) after a column that is present
lowest(lowest_y, st, items) == IF items = <<>> THEN lowest_y ELSE Min(lowest_y, st.y)

\* the two-column block after the section-entry rule
columns_block(st, limitations, next_steps) ==
    LET c1 == column(st, st.y, limitations, "limitations")
        l1 == lowest(st.y, c1, limitations)
        c2 == column(c1, st.y, next_steps, "next_steps")
        l2 == lowest(l1, c2, next_steps)
    IN moveTo(c2, l2 - 10 * pt)

----------------------------------------------------------------------------
(* The composer _write_visual_pdf, one step per part of the report *)

\* the height both charts are asked for
chart_height == 200 * pt

\* the executive summary box with at most 3 of the wrapped lines
summary_step(st, executive_summary) ==
    IF executive_summary.empty THEN st
    ELSE moveTo(draw(st, Op("summary", "summary", 0, st.page, st.y,
                            Min(executive_summary.lines, 3))),
                st.y - 70 * pt)

\* variant of numeric_field: the last key of the row whose value is a number
numeric_field_last(row) ==
    IF \E j \in 1..Len(row.items) : row.items[j].t = "num"
    THEN row.items[CHOOSE j \in 1..Len(row.items) :
                      /\ row.items[j].t = "num"
                      /\ \A l \in (j + 1)..Len(row.items) : row.items[l].t # "num"].k
    ELSE None

\* "Find numeric field": the first key of the row whose value is a number
numeric_field(row) ==
    IF \E j \in 1..Len(row.items) : row.items[j].t = "num"
    THEN row.items[CHOOSE j \in 1..Len(row.items) :
                      /\ row.items[j].t = "num"
                      /\ \A l \in 1..(j - 1) : row.items[l].t # "num"].k
    ELSE None

bar_max_rows == 15

pie_min_rows == 3

\* the bar chart of the chart step
bar_step(st, data, ct, nf) ==
    IF ct \in {"Auto", "Bar", "Both"} /\ Len(data.rows) <= bar_max_rows
    THEN _create_bar_chart(st, data, chart_height, None, nf)
    ELSE st

\* the pie chart of the chart step, on query_data[:8]
pie_step(st, data, ct, nf) ==
    IF ct \in {"Auto", "Pie", "Both"} /\ Len(data.rows) >= pie_min_rows
    THEN _create_pie_chart(st, [data EXCEPT !.rows = Take(@, 8)], chart_height, None, nf)
    ELSE st

\* variant of charts_step: every policy but "Pie" falls through to the bar
\* chart
charts_step_default_bar(st, data, ct) ==
    IF ~not_a_nonempty_list(data)
    THEN IF data.rows[1].dict /\ ~Falsy(numeric_field(data.rows[1]))
         THEN IF ct = "Pie"
              THEN pie_step(st, data, ct, numeric_field(data.rows[1]))
              ELSE _create_bar_chart(st, data, chart_height, None,
                                     numeric_field(data.rows[1]))
         ELSE st
    ELSE st

\* "Visualizations from query data - only if chart_type is not None"
charts_step(st, data, ct) ==
    IF ct # "None" /\ ~not_a_nonempty_list(data)
    THEN IF data.rows[1].dict
         THEN LET nf == numeric_field(data.rows[1])
              IN IF ~Falsy(nf) THEN pie_step(bar_step(st, data, ct, nf), data, ct, nf)
                 ELSE st
         ELSE st
    ELSE st

\* variant of section_entry: the spacer is applied after the page break too
section_entry_both(st, threshold) ==
    IF st.y < threshold THEN moveTo(showPage(st), top_y - 15 * pt)
    ELSE moveTo(st, st.y - 15 * pt)

\* the rule before a section: a page break below the threshold, else the
\* 15-point spacer
section_entry(st, threshold) ==
    IF st.y < threshold THEN moveTo(showPage(st), top_y) ELSE moveTo(st, st.y - 15 * pt)

metrics_step(st, key_metrics) ==
    IF key_metrics = <<>> THEN st
    ELSE _draw_metric_cards(section_entry(st, 10 * cm), key_metrics)

table_max_rows == 15

table_step(st, data) ==
    IF not_a_nonempty_list(data) THEN st
    ELSE _draw_styled_table(section_entry(st, 10 * cm), data, TRUE, table_max_rows)

insights_step(st, insights) ==
    IF insights = <<>> THEN st
    ELSE _draw_insights_section(section_entry(st, 10 * cm), insights)

\* variant of findings_step: the section-entry threshold of the item loop
findings_step_low(st, findings) ==
    IF findings = <<>> THEN st
    ELSE findings_block(section_entry(st, 4 * cm), findings)

findings_step(st, findings) ==
    IF findings = <<>> THEN st
    ELSE findings_block(section_entry(st, 8 * cm), findings)

recommendations_step(st, recommendations) ==
    IF recommendations = <<>> THEN st
    ELSE recommendations_block(section_entry(st, 8 * cm), recommendations)

\* variant of columns_step: the block is entered without looking at the lists
columns_step_always(st, limitations, next_steps) ==
    columns_block(section_entry(st, 10 * cm), limitations, next_steps)

columns_step(st, limitations, next_steps) ==
    IF limitations = <<>> /\ next_steps = <<>> THEN st
    ELSE columns_block(section_entry(st, 10 * cm), limitations, next_steps)

\* variant of footer_step: the footer goes to the first page
footer_step_first_page(st) == draw(st, Op("footer", "footer", 1, 1, (3 * cm) \div 2, 0))

\* the footer of the current page: the data source and the text "Page 1"
\* (i is the page number printed), then the footer line
footer_step(st) == draw(st, Op("footer", "footer", 1, st.page, (3 * cm) \div 2, 0))

----------------------------------------------------------------------------
(* State *)

\* the canvas and cursor of the state
St == [y |-> y, page |-> page, ops |-> ops, exc |-> FALSE]

\* the step's result st becomes the state; a step that raised ends the
\* render at "failed", else the render goes on at nxt; the step that ends
\* at "saved" has called c.save(), which writes the file at out_path
Goto(st, nxt) ==
    /\ y' = st.y
    /\ page' = st.page
    /\ ops' = st.ops
    /\ pc' = IF st.exc THEN "failed" ELSE nxt
    /\ fs' = IF nxt = "saved" /\ ~st.exc THEN [fs EXCEPT !.file = "written"] ELSE fs
    /\ UNCHANGED <<report, query_data, chart_type, arg, result>>

Header ==
    /\ pc = "header"
    /\ Goto(_draw_header(St), "summary")

Summary ==
    /\ pc = "summary"
    /\ Goto(summary_step(St, report.executive_summary), "charts")

Charts ==
    /\ pc = "charts"
    /\ Goto(charts_step(St, query_data, chart_type), "metrics")

Metrics ==
    /\ pc = "metrics"
    /\ Goto(metrics_step(St, report.key_metrics), "table")

Table ==
    /\ pc = "table"
    /\ Goto(table_step(St, query_data), "insights")

Insights ==
    /\ pc = "insights"
    /\ Goto(insights_step(St, report.insights), "findings")

Findings ==
    /\ pc = "findings"
    /\ Goto(findings_step(St, report.findings), "recommendations")

Recommendations ==
    /\ pc = "recommendations"
    /\ Goto(recommendations_step(St, report.recommendations), "columns")

Columns ==
    /\ pc = "columns"
    /\ Goto(columns_step(St, report.limitations, report.next_steps), "footer")

\* the footer and c.save()
Footer ==
    /\ pc = "footer"
    /\ Goto(footer_step(St), "saved")

----------------------------------------------------------------------------
(* Inputs *)

\* the largest row count of a row-set (above the table's and the bar
\* chart's 15)
MaxRows == 16

\* the largest number of metrics (above the 10 cards drawn)
MaxMetrics == 11

\* the largest number of items of a list (above every cap)
MaxItems == 11

\* the most lines an item wraps to
MaxLines == 12

Cell(k, t, v) == [k |-> k, t |-> t, v |-> v]

Mapping(items) == [dict |-> TRUE, items |-> items]

NonMapping == [dict |-> FALSE, items |-> <<>>]

List(rows) == [type |-> "list", rows |-> rows]

Tuple(rows) == [type |-> "tuple", rows |-> rows]

NoData == [type |-> "None", rows |-> <<>>]

\* a label and a number
SalesRow(j) == Mapping(<<Cell("name", "str", 0), Cell("amount", "num", j)>>)

\* no numeric value
TextRow(j) == Mapping(<<Cell("name", "str", 0), Cell("note", "str", 0)>>)

\* the first column has the empty name
UnnamedRow(j) == Mapping(<<Cell("", "str", 0), Cell("amount", "num", j)>>)

\* the numbers are all 0
ZeroRow(j) == Mapping(<<Cell("name", "str", 0), Cell("amount", "num", 0)>>)

\* the numeric column has the empty name (an unnamed SQL expression)
UnnamedSumRow(j) == Mapping(<<Cell("name", "str", 0), Cell("", "num", j)>>)

\* one numeric column only
CountRow(j) == Mapping(<<Cell("amount", "num", j)>>)

\* two numeric columns
TotalsRow(j) ==
    Mapping(<<Cell("name", "str", 0), Cell("amount", "num", j), Cell("total", "num", 10 * j)>>)

\* the numeric column comes first
NumberFirstRow(j) == Mapping(<<Cell("amount", "num", j), Cell("name", "str", 0)>>)

\* row 0 holds text under amount, the rows after it hold numbers
LateRows ==
    <<Mapping(<<Cell("name", "str", 0), Cell("amount", "str", 0)>>), SalesRow(2), SalesRow(3)>>

SalesRows(n) == [j \in 1..n |-> SalesRow(j)]

TotalsRows(n) == [j \in 1..n |-> TotalsRow(j)]

NumberFirstRows(n) == [j \in 1..n |-> NumberFirstRow(j)]

TextRows(n) == [j \in 1..n |-> TextRow(j)]

UnnamedRows(n) == [j \in 1..n |-> UnnamedRow(j)]

ZeroRows(n) == [j \in 1..n |-> ZeroRow(j)]

CountRows(n) == [j \in 1..n |-> CountRow(j)]

UnnamedSumRows(n) == [j \in 1..n |-> UnnamedSumRow(j)]

\* n items of l lines each
Uniform(n, l) == [j \in 1..n |-> l]

RowCounts == {1, 3, 5, bar_max_rows, MaxRows}

\* the row-sets of well-formed query results
PlainRowSets == {NoData} \cup {List(SalesRows(n)) : n \in {5, MaxRows}}

RowSets ==
    PlainRowSets
    \cup {List(<<>>), Tuple(SalesRows(3)), List(<<NonMapping>>),
          List(<<SalesRow(1), NonMapping>>), List(<<Mapping(<<>>)>>)}
    \cup {List(TotalsRows(3)), List(NumberFirstRows(3)), List(LateRows)}
    \cup {List(SalesRows(n)) : n \in RowCounts}
    \cup {List(TextRows(n)) : n \in RowCounts}
    \cup {List(UnnamedRows(n)) : n \in {1, 3}}
    \cup {List(UnnamedSumRows(n)) : n \in {1, 3}}
    \cup {List(ZeroRows(n)) : n \in {1, 3}}
    \cup {List(CountRows(n)) : n \in {1, 3}}

ChartTypes == {"Auto", "Bar", "Pie", "Both", "None"}

EmptyText == [empty |-> TRUE, lines |-> 0]

Text(n) == [empty |-> FALSE, lines |-> n]

Reports ==
    [executive_summary : {EmptyText, Text(2)},
     key_metrics : {Uniform(n, 1) : n \in {0, 1, 7, MaxMetrics}},
     insights : {<<>>, Uniform(MaxItems - 2, 3)},
     findings : {<<>>, Uniform(3, 1), Uniform(MaxItems, MaxLines \div 2)},
     recommendations : {<<>>, Uniform(MaxItems - 2, 2)},
     limitations : {<<>>, <<1, 0, 2>>},
     next_steps : {<<>>, Uniform(MaxItems \div 2 + 1, 3)}]

\* the reports with metrics and findings only
PlainReports ==
    {r \in Reports : /\ r.insights = <<>> /\ r.recommendations = <<>>
                     /\ r.limitations = <<>> /\ r.next_steps = <<>>}

\* no direct call
NoCall == [fn |-> "_write_visual_pdf"]

\* the file system at the output path: whether the folder exists, whether
\* folder.mkdir was called, and the file ("absent", "old" for a file of an
\* earlier run, "written" once c.save() has written it)
Files(folder, file) == [folder |-> folder, mkdir |-> FALSE, file |-> file]

\* the folder is there and holds no report yet
FolderOnly == Files(TRUE, "absent")

\* what build_pdf gave back: nothing yet ("none"), the ValueError of a
\* missing report_data ("raised"), the Data of an error ("error": stage
\* says which), or the Data of the summary mapping ("info")
Result(kind, stage, info) == [kind |-> kind, stage |-> stage, info |-> info]

\* the summary mapping of a successful build_pdf
Info(metrics_count, has_charts, total_insights, total_findings, data_rows) ==
    [metrics_count |-> metrics_count, has_charts |-> has_charts,
     total_insights |-> total_insights, total_findings |-> total_findings,
     data_rows |-> data_rows]

NoInfo == Info(0, FALSE, 0, 0, 0)

NoResult == Result("none", "", NoInfo)

----------------------------------------------------------------------------
(* Spec: one render by _write_visual_pdf on a fresh canvas *)

Init ==
    /\ pc = "header"
    /\ y = 0
    /\ page = 1
    /\ ops = <<>>
    /\ report \in Reports
    /\ query_data \in RowSets
    /\ chart_type \in ChartTypes
    /\ (query_data \in PlainRowSets \/ report \in PlainReports)
    /\ arg = NoCall
    /\ fs = FolderOnly
    /\ result = NoResult

Next ==
    \/ Header
    \/ Summary
    \/ Charts
    \/ Metrics
    \/ Table
    \/ Insights
    \/ Findings
    \/ Recommendations
    \/ Columns
    \/ Footer

Spec == Init /\ [][Next]_vars

----------------------------------------------------------------------------
(* Calls of one renderer, or one composer step, from any entry cursor *)

\* the entry cursors: every half cm from 0 up, and the units next to them
MaxCursor == 56

Cursors == {j * (cm \div 2) + d : j \in 0..MaxCursor, d \in {-1, 0, 1}}

\* all sequences over S of length at most n
Seqs(S, n) == UNION {[1..k -> S] : k \in 0..n}

\* the longest list that also has items wrapping to no line
MaxShort == 4

ItemLists == Seqs({1, MaxLines}, MaxItems) \cup Seqs({0, 1, MaxLines}, MaxShort)

EmptyReport ==
    [executive_summary |-> EmptyText, key_metrics |-> <<>>, insights |-> <<>>,
     findings |-> <<>>, recommendations |-> <<>>, limitations |-> <<>>,
     next_steps |-> <<>>]

\* a call of fn with the cursor yy; the arguments a renderer does not have
\* are left at the values the composer passes
Call(fn, yy) ==
    [fn |-> fn, y |-> yy, height |-> chart_height, key_field |-> None,
     value_field |-> None, has_title |-> TRUE, max_rows |-> table_max_rows]

\* the state at a call: the canvas on page 1, nothing drawn there yet
AtCall(call) ==
    /\ pc = call.fn
    /\ y = call.y
    /\ page = 1
    /\ ops = <<>>
    /\ arg = call
    /\ fs = FolderOnly
    /\ result = NoResult

\* the call returns st
Return(st) == Goto(st, "returned")

(* SpecLists: the three item lists *)

ListCursors ==
    {top_y, 10 * cm, 8 * cm, 8 * cm - 1, 5 * cm, 5 * cm - 1, 4 * cm, 4 * cm - 1, 0}

InitLists ==
    /\ \E fn \in {"_draw_insights_section", "findings", "recommendations"} :
       \E yy \in ListCursors : AtCall(Call(fn, yy))
    /\ \E items \in ItemLists :
          report = [EmptyReport EXCEPT ![IF pc = "_draw_insights_section"
                                         THEN "insights" ELSE pc] = items]
    /\ query_data = NoData
    /\ chart_type = "None"

CallInsightsSection ==
    /\ pc = "_draw_insights_section"
    /\ Return(_draw_insights_section(St, report.insights))

NextLists ==
    \/ CallInsightsSection
    \/ Findings
    \/ Recommendations

SpecLists == InitLists /\ [][NextLists]_vars

(* SpecTable: calls of _draw_styled_table *)

TableCalls ==
    {[Call("_draw_styled_table", yy) EXCEPT !.has_title = t, !.max_rows = m] :
        yy \in Cursors, t \in BOOLEAN, m \in {table_max_rows, 3}}

InitTable ==
    /\ \E call \in TableCalls : AtCall(call)
    /\ report = EmptyReport
    /\ query_data \in RowSets
    /\ chart_type = "None"

CallStyledTable ==
    /\ pc = "_draw_styled_table"
    /\ Return(_draw_styled_table(St, query_data, arg.has_title, arg.max_rows))

NextTable == CallStyledTable

SpecTable == InitTable /\ [][NextTable]_vars

(* SpecCards: calls of _draw_metric_cards *)

InitCards ==
    /\ \E yy \in Cursors : AtCall(Call("_draw_metric_cards", yy))
    /\ \E n \in 0..MaxMetrics : report = [EmptyReport EXCEPT !.key_metrics = Uniform(n, 1)]
    /\ query_data = NoData
    /\ chart_type = "None"

CallMetricCards ==
    /\ pc = "_draw_metric_cards"
    /\ Return(_draw_metric_cards(St, report.key_metrics))

NextCards == CallMetricCards

SpecCards == InitCards /\ [][NextCards]_vars

(* SpecCharts: calls of _create_bar_chart and _create_pie_chart *)

\* a number, a string float() converts, a string it rejects, None
MixedRow(j) ==
    Mapping(<<Cell("name", "str", 0), Cell("amount", "num", j), Cell("share", "numstr", j),
              Cell("note", "str", 0), Cell("extra", "none", 0)>>)

\* the numbers cancel out
SignedRows == <<SalesRow(2), SalesRow(-2)>>

\* rows 2.. lack the value field or hold text in it
RaggedRows == <<SalesRow(3), Mapping(<<Cell("name", "str", 0)>>),
                Mapping(<<Cell("name", "str", 0), Cell("amount", "str", 0)>>)>>

ChartData ==
    RowSets
    \cup {List(<<MixedRow(1), MixedRow(2)>>), List(SignedRows), List(RaggedRows),
          List(<<NonMapping, SalesRow(1)>>), List(Uniform(bar_cap, NonMapping) \o <<SalesRow(1)>>),
          List(Uniform(pie_cap, NonMapping) \o <<SalesRow(1)>>)}

ChartCalls ==
    {[Call(fn, yy) EXCEPT !.height = h, !.key_field = kf, !.value_field = vf] :
        fn \in {"_create_bar_chart", "_create_pie_chart"},
        yy \in {top_y, 10 * cm},
        h \in {chart_height, chart_height \div 2},
        kf \in {None, "", "name", "missing"},
        vf \in {None, "", "amount", "share", "note", "extra", "missing"}}

InitCharts ==
    /\ \E call \in ChartCalls : AtCall(call)
    /\ report = EmptyReport
    /\ query_data \in ChartData
    /\ chart_type = "None"

CallBarChart ==
    /\ pc = "_create_bar_chart"
    /\ Return(_create_bar_chart(St, query_data, arg.height, arg.key_field, arg.value_field))

CallPieChart ==
    /\ pc = "_create_pie_chart"
    /\ Return(_create_pie_chart(St, query_data, arg.height, arg.key_field, arg.value_field))

NextCharts ==
    \/ CallBarChart
    \/ CallPieChart

SpecCharts == InitCharts /\ [][NextCharts]_vars

(* SpecColumns: the two-column step of the composer from any cursor *)

\* the column lists: items of 2 lines and items that wrap to no line, and a
\* list above the cap of 5
ColumnLists == Seqs({0, 2}, MaxShort) \cup {Uniform(column_cap + 1, 1)}

ColumnCursors == {top_y, 15 * cm, 10 * cm, 10 * cm - 1, 3 * cm}

InitColumns ==
    /\ \E yy \in ColumnCursors : AtCall(Call("columns", yy))
    /\ \E limitations \in ColumnLists, next_steps \in ColumnLists :
          report = [EmptyReport EXCEPT !.limitations = limitations, !.next_steps = next_steps]
    /\ query_data = NoData
    /\ chart_type = "None"

NextColumns == Columns

SpecColumns == InitColumns /\ [][NextColumns]_vars

----------------------------------------------------------------------------
(* The component: VisualReportToPDF.build_pdf *)

(* A report input is a record [kind, title, findings, report]:             *)
(*   kind      how report_data arrives: "empty" (None or ""), "str" (the   *)
(*             template text), "text" (an object whose .text is the        *)
(*             template text), "data_str" (an object whose .data is the    *)
(*             template text), "data_dict" (an object whose .data is a     *)
(*             mapping of the fields), "dict" (the mapping itself),        *)
(*             "other" (anything else that is truthy, e.g. a number);      *)
(*   title     whether the title field is there;                           *)
(*   findings  how the findings field is written: "literal" (a list        *)
(*             literal), "bad_literal" (a text that starts with "[" and    *)
(*             is no literal), "text" (any other text), "absent";          *)
(*   report    the content of the fields once parsed.                      *)

Forms == {"literal", "bad_literal", "text", "absent"}

\* the fields a template text gives: a value that starts with "[" goes
\* through ast.literal_eval and becomes [] when that fails, any other value
\* stays a string, a field with no match is left out
_parse_template_format(text) ==
    [title |-> text.title,
     findings |-> CASE text.findings = "literal" -> "list"
                    [] text.findings = "bad_literal" -> "empty_list"
                    [] text.findings = "text" -> "str"
                    [] text.findings = "absent" -> "absent",
     report |-> text.report]

\* the fields of a mapping passed as it is: a list stays a list and a
\* text stays a string
fields_of_mapping(raw) ==
    [title |-> raw.title,
     findings |-> CASE raw.findings = "literal" -> "list"
                    [] raw.findings \in {"bad_literal", "text"} -> "str"
                    [] raw.findings = "absent" -> "absent",
     report |-> raw.report]

\* ReportModel(**data): title is required and findings is a List[str], with
\* the empty list as its default; ok is FALSE when validation raises
ReportModel(data) ==
    IF ~data.title \/ data.findings = "str"
    THEN [ok |-> FALSE, report |-> data.report]
    ELSE [ok |-> TRUE,
          report |-> [data.report EXCEPT !.findings = IF data.findings = "list" THEN @ ELSE <<>>]]

\* ok is FALSE when _parse_report raises ValueError("Failed to parse report")
_parse_report(report_data) ==
    CASE report_data.kind \in {"str", "text", "data_str"} ->
            ReportModel(_parse_template_format(report_data))
      [] report_data.kind \in {"data_dict", "dict"} ->
            ReportModel(fields_of_mapping(report_data))
      [] OTHER -> [ok |-> FALSE, report |-> report_data.report]

(* A query input is a record [kind, rows]:                                 *)
(*   kind  "none" (None), "list" (the rows themselves), "json" (the JSON   *)
(*         text of a list), "bad_json" (a text json.loads rejects),        *)
(*         "data_results" (an object whose .data is {"results": rows}),    *)
(*         "data_list" (an object whose .data is the rows),                *)
(*         "data_json" (an object whose .data is the JSON text of a list), *)
(*         "data_other" (an object whose .data is something else);         *)
(*   rows  the row-set carried.                                            *)

\* json.loads of the JSON text of a row-set: always a list
json_loads(rows) == List(rows.rows)

_get_query_data(query_results) ==
    CASE query_results.kind = "none" -> NoData
      [] query_results.kind = "list" ->
            IF query_results.rows.rows = <<>> THEN NoData ELSE query_results.rows
      [] query_results.kind \in {"json", "data_json"} -> json_loads(query_results.rows)
      [] query_results.kind = "data_results" -> query_results.rows
      [] query_results.kind = "data_list" ->
            IF query_results.rows.type = "list" THEN query_results.rows ELSE NoData
      [] OTHER -> NoData

\* len(query_data), for a query_data that is not None
len(data) == Len(data.rows)

\* "has_charts": query_data is not None and len(query_data) > 0
has_charts(data) == data.type # "None" /\ len(data) > 0

\* the summary mapping; data_rows is set only `if query_data:` (0 stands
\* for the key left out)
build_info(rep, data) ==
    Info(Len(rep.key_metrics), has_charts(data), Len(rep.insights), Len(rep.findings),
         IF data.type # "None" /\ len(data) > 0 THEN len(data) ELSE 0)


\* variant of build_pdf_setup: the output folder is made before the report
\* is parsed
build_pdf_setup_first(self, files) ==
    IF self.report_data.kind = "empty"
    THEN [pc |-> "raised", files |-> files, result |-> Result("raised", "missing", NoInfo),
          report |-> EmptyReport, query_data |-> NoData]
    ELSE IF ~_parse_report(self.report_data).ok
    THEN [pc |-> "done", files |-> [files EXCEPT !.folder = TRUE, !.mkdir = TRUE],
          result |-> Result("error", "parse", NoInfo),
          report |-> EmptyReport, query_data |-> NoData]
    ELSE [pc |-> "header", files |-> [files EXCEPT !.folder = TRUE, !.mkdir = TRUE],
          result |-> NoResult,
          report |-> _parse_report(self.report_data).report,
          query_data |-> _get_query_data(self.query_results)]

\* build_pdf up to its call of _write_visual_pdf: the missing-input check,
\* the parse of both inputs, then folder.mkdir(parents=True, exist_ok=True);
\* pc is where build_pdf is afterwards: "raised" (the ValueError of a
\* missing report_data leaves build_pdf), "done" (it returned the Data of
\* the parse error), "header" (it has called _write_visual_pdf)
build_pdf_setup(self, files) ==
    IF self.report_data.kind = "empty"
    THEN [pc |-> "raised", files |-> files, result |-> Result("raised", "missing", NoInfo),
          report |-> EmptyReport, query_data |-> NoData]
    ELSE IF ~_parse_report(self.report_data).ok
    THEN [pc |-> "done", files |-> files, result |-> Result("error", "parse", NoInfo),
          report |-> EmptyReport, query_data |-> NoData]
    ELSE [pc |-> "header", files |-> [files EXCEPT !.folder = TRUE, !.mkdir = TRUE],
          result |-> NoResult,
          report |-> _parse_report(self.report_data).report,
          query_data |-> _get_query_data(self.query_results)]

BuildPdf ==
    /\ pc = "build_pdf"
    /\ LET out == build_pdf_setup(arg, fs)
       IN /\ pc' = out.pc
          /\ fs' = out.files
          /\ result' = out.result
          /\ report' = out.report
          /\ query_data' = out.query_data
    /\ UNCHANGED <<y, page, ops, chart_type, arg>>

\* _write_visual_pdf raised: "Rendering failed."
RenderingFailed ==
    /\ pc = "failed"
    /\ arg.fn = "build_pdf"
    /\ pc' = "done"
    /\ result' = Result("error", "render", NoInfo)
    /\ UNCHANGED <<y, page, ops, report, query_data, chart_type, arg, fs>>

\* _write_visual_pdf returned: the summary mapping is built and returned
ReturnInfo ==
    /\ pc = "saved"
    /\ arg.fn = "build_pdf"
    /\ pc' = "done"
    /\ result' = Result("info", "", build_info(report, query_data))
    /\ UNCHANGED <<y, page, ops, report, query_data, chart_type, arg, fs>>

(* SpecBuild: one call of build_pdf *)

\* a report with one metric and three findings, and one with every part
BuildReports ==
    {[EmptyReport EXCEPT !.key_metrics = <<1>>, !.findings = <<1, 1, 1>>],
     [executive_summary |-> Text(2), key_metrics |-> Uniform(7, 1),
      insights |-> <<1, 2>>, findings |-> Uniform(MaxItems, 2),
      recommendations |-> <<1>>, limitations |-> <<1>>, next_steps |-> <<2, 1>>]}

ReportData ==
    [kind : {"str", "text", "data_str", "data_dict", "dict"}, title : BOOLEAN,
     findings : Forms, report : BuildReports]
    \cup [kind : {"empty", "other"}, title : {TRUE}, findings : {"literal"},
          report : BuildReports]

\* the well-formed template texts
PlainReportData == {d \in ReportData : d.kind = "str" /\ d.title /\ d.findings = "literal"}

QueryResults ==
    [kind : {"list", "data_results"}, rows : RowSets]
    \cup [kind : {"json", "data_json", "data_list"}, rows : RowSets \ {NoData, Tuple(SalesRows(3))}]
    \cup [kind : {"data_list"}, rows : {Tuple(SalesRows(3))}]
    \cup [kind : {"none", "bad_json", "data_other"}, rows : {NoData}]

PlainQueryResults == [kind : {"none", "list"}, rows : {NoData, List(SalesRows(5))}]

\* the output folder may be missing; a report of an earlier run may be there
FileSystems == {Files(TRUE, "absent"), Files(TRUE, "old"), Files(FALSE, "absent")}

Self(report_data, query_results) ==
    [fn |-> "build_pdf", report_data |-> report_data, query_results |-> query_results]

InitBuild ==
    /\ pc = "build_pdf"
    /\ y = 0
    /\ page = 1
    /\ ops = <<>>
    /\ report = EmptyReport
    /\ query_data = NoData
    /\ chart_type \in ChartTypes
    /\ fs \in FileSystems
    /\ result = NoResult
    /\ \E report_data \in ReportData, query_results \in QueryResults :
          /\ arg = Self(report_data, query_results)
          /\ \/ /\ report_data \in PlainReportData
                /\ fs = FolderOnly
             \/ /\ query_results \in PlainQueryResults
                /\ chart_type = "Auto"

NextBuild ==
    \/ BuildPdf
    \/ Header
    \/ Summary
    \/ Charts
    \/ Metrics
    \/ Table
    \/ Insights
    \/ Findings
    \/ Recommendations
    \/ Columns
    \/ Footer
    \/ RenderingFailed
    \/ ReturnInfo

SpecBuild == InitBuild /\ [][NextBuild]_vars

----------------------------------------------------------------------------
(* Reading the drawing log *)

\* the composer's steps in order
PcOrder ==
    <<"header", "summary", "charts", "metrics", "table", "insights", "findings",
      "recommendations", "columns", "footer", "saved">>

PcIndex(p) == CHOOSE j \in 1..Len(PcOrder) : PcOrder[j] = p

\* the step named sec is over: the render is past it, or the call returned
After(sec) ==
    \/ pc = "returned"
    \/ /\ \E j \in 1..Len(PcOrder) : PcOrder[j] = pc
       /\ PcIndex(pc) > PcIndex(sec)

\* the positions in the log of the operations of kind k of section sec
Positions(k, sec) == {a \in 1..Len(ops) : ops[a].k = k /\ ops[a].s = sec}

\* the operations of kind k of section sec, in drawing order
Drawn(k, sec) == SelectSeq(ops, LAMBDA o : o.k = k /\ o.s = sec)

\* the operations of kind k, in drawing order
DrawnKind(k) == SelectSeq(ops, LAMBDA o : o.k = k)

ListSections == {"insights", "findings", "recommendations"}

SectionCap(sec) ==
    CASE sec = "insights" -> insights_cap
      [] sec = "findings" -> findings_cap
      [] sec = "recommendations" -> recommendations_cap

----------------------------------------------------------------------------
(* Claims *)

\* C1: in the insights, findings and recommendations lists, the items
\* within the cap are drawn exactly once each and in their order, and two
\* consecutive items are either next to each other on one page or
\* separated by exactly one page break, after which the "(continued)" title
\* is drawn at the top (27 cm) of the new page before the next item.
C1_ListsKeepEveryItem ==
    \A sec \in ListSections :
        After(sec) =>
            /\ Len(Drawn("item", sec)) = Min(Len(report[sec]), SectionCap(sec))
            /\ \A j \in 1..Len(Drawn("item", sec)) :
                  /\ Drawn("item", sec)[j].i = j
                  /\ Drawn("item", sec)[j].n = report[sec][j]
            /\ \A b \in Positions("item", sec) :
                  ops[b].i > 1 =>
                     \/ /\ ops[b - 1].k = "item"
                        /\ ops[b - 1].s = sec
                        /\ ops[b - 1].p = ops[b].p
                     \/ /\ ops[b - 1] = Op("cont", sec, 0, ops[b].p, top_y, 0)
                        /\ ops[b - 2].k = "item"
                        /\ ops[b - 2].s = sec
                        /\ ops[b - 2].p + 1 = ops[b].p
            /\ \A b \in Positions("cont", sec) :
                  /\ b < Len(ops)
                  /\ ops[b + 1].k = "item"
                  /\ ops[b + 1].s = sec
                  /\ ops[b + 1].p = ops[b].p
                  /\ ops[b + 1].y = top_y - 20 * pt

\* a findings list longer than its cap, drawn with a page break between
\* two of its items
C1_Witness ==
    /\ pc = "recommendations"
    /\ arg.fn = "findings"
    /\ Len(report.findings) > findings_cap
    /\ \E b \in Positions("cont", "findings") :
          /\ ops[b - 1].k = "item"
          /\ ops[b + 1].k = "item"
          /\ ops[b + 1].i = ops[b - 1].i + 1

\* the cards drawn, in drawing order
Cards == Drawn("card", "metrics")

\* the table rows drawn (the header row first), in drawing order
TableRows == Drawn("row", "table")

\* C2: the styled table is atomic: the header row and the body rows are
\* drawn on one page, one under the other; when the table would reach
\* below 2 cm (y - h < 2 cm, y the cursor under the title) the page break
\* comes first and the table starts at the top position (27 cm) of the new
\* page, otherwise it starts at y on the page of the call.
C2_TableAtomic ==
    (pc = "returned" /\ arg.fn = "_draw_styled_table" /\ TableRows # <<>>) =>
        LET h  == SumSeq([j \in 1..Len(TableRows) |-> TableRows[j].n])
            yy == IF arg.has_title THEN arg.y - 20 * pt ELSE arg.y
        IN /\ Len(TableRows) = Min(Len(query_data.rows), arg.max_rows) + 1
           /\ \A j \in 1..Len(TableRows) :
                 /\ TableRows[j].i = j - 1
                 /\ TableRows[j].p = TableRows[1].p
                 /\ j > 1 => TableRows[j].y = TableRows[j - 1].y - TableRows[j - 1].n
           /\ IF yy - h < 2 * cm
              THEN TableRows[1].p = 2 /\ TableRows[1].y = top_y
              ELSE TableRows[1].p = 1 /\ TableRows[1].y = yy

\* a table cut to max_rows that did not fit and was moved to page 2 whole
C2_Witness ==
    /\ pc = "returned"
    /\ arg.fn = "_draw_styled_table"
    /\ Len(query_data.rows) > arg.max_rows
    /\ Len(TableRows) = arg.max_rows + 1
    /\ TableRows[1].p = 2
    /\ arg.y >= 2 * cm

\* C3: the two cards of one grid row are drawn on the same page (and at the
\* same height); the page changes only before the first card of a row.
C3_CardRowOnOnePage ==
    /\ \A a, b \in 1..Len(Cards) :
          Cards[a].i \div 2 = Cards[b].i \div 2 =>
              Cards[a].p = Cards[b].p /\ Cards[a].y = Cards[b].y
    /\ \A j \in 2..Len(Cards) : Cards[j].p # Cards[j - 1].p => Cards[j].i % 2 = 0

\* a page break inside the card loop in front of a row of two cards
C3_Witness ==
    /\ pc = "returned"
    /\ arg.fn = "_draw_metric_cards"
    /\ \E j \in 2..(Len(Cards) - 1) :
          /\ Cards[j - 1].p = 1
          /\ Cards[j].p = 2
          /\ Cards[j + 1].i = Cards[j].i + 1
          /\ Cards[j + 1].i % 2 = 1

\* C4: the row that triggers a page break is drawn at the top of the new
\* page: the top edge of a card drawn first on a new page is at 27 cm,
\* whatever its row.
C4_BrokenRowAtTop ==
    \A b \in Positions("card", "metrics") : ops[b].p # ops[b - 1].p => ops[b].y = top_y

\* C5: after a non-empty metric list of n entries the cursor is on the page
\* of the last card, exactly (spacing + 20) below its bottom edge, and the
\* min(n, 10) cards drawn fill ceil(min(n, 10) / 2) rows: 4 rows for 7.
C5_CursorAfterCards ==
    (pc = "returned" /\ arg.fn = "_draw_metric_cards" /\ report.key_metrics # <<>>) =>
        LET m    == Min(Len(report.key_metrics), 10)
            rows == IF m % 2 = 0 THEN m \div 2 ELSE m \div 2 + 1
            last == Cards[Len(Cards)]
        IN /\ Len(Cards) = m
           /\ last.i \div 2 = rows - 1
           /\ Len(report.key_metrics) = 7 => last.i \div 2 + 1 = 4
           /\ page = last.p
           /\ y = (last.y - card_height) - (spacing + 20 * pt)
           /\ y = (last.y + (rows - 1) * (card_height + spacing))
                  - rows * (card_height + spacing) - 20 * pt

\* 7 metrics with a page break inside the card loop
C5_Witness ==
    /\ pc = "returned"
    /\ arg.fn = "_draw_metric_cards"
    /\ Len(report.key_metrics) = 7
    /\ Len(Cards) = 7
    /\ Cards[1].p = 1
    /\ page = 2

\* C6: with chart policy None the chart step draws nothing and leaves the
\* cursor and the page as they were, whatever the row-set; no chart is in
\* the document.
C6_NoneDrawsNoChart ==
    [][chart_type = "None" =>
          /\ pc = "charts" => (y' = y /\ page' = page /\ ops' = ops)
          /\ \A a \in 1..Len(ops') : ops'[a].k \notin {"bar", "pie"}]_vars

\* policy None on a chartable row-set, the chart step done
C6_Witness ==
    /\ pc = "metrics"
    /\ chart_type = "None"
    /\ query_data = List(SalesRows(5))
    /\ ops = <<Op("header", "header", 0, 1, page_height, header_height)>>

\* the rows are a non-empty list of mappings that all hold a number under
\* one same key
HasNumericField(data) ==
    /\ data.type = "list"
    /\ data.rows # <<>>
    /\ \A j \in 1..Len(data.rows) : data.rows[j].dict
    /\ \E c \in 1..Len(data.rows[1].items) :
          \A j \in 1..Len(data.rows) : is_numeric(data.rows[j], data.rows[1].items[c].k)

\* C7: with chart policy Bar and a non-empty row-set of mappings with at
\* most 15 rows and a numeric field, the chart step draws exactly one bar
\* chart and no pie chart and lowers the cursor by the chart height plus 20.
C7_BarDrawsOneBar ==
    [][(/\ pc = "charts"
        /\ chart_type = "Bar"
        /\ HasNumericField(query_data)
        /\ Len(query_data.rows) <= 15) =>
          /\ Len(ops') = Len(ops) + 1
          /\ SubSeq(ops', 1, Len(ops)) = ops
          /\ ops'[Len(ops')].k = "bar"
          /\ ops'[Len(ops')].p = page
          /\ page' = page
          /\ y' = y - chart_height - 20 * pt]_vars

\* the call of a chart renderer has returned
ChartReturned == pc = "returned" /\ arg.fn \in {"_create_bar_chart", "_create_pie_chart"}

\* the kind of chart and the row cap of the renderer called
ChartKind == IF arg.fn = "_create_bar_chart" THEN "bar" ELSE "pie"

ChartCap == IF arg.fn = "_create_bar_chart" THEN 10 ELSE 8

\* the renderer drew nothing and returned the y it was given
ChartNoOp == ops = <<>> /\ y = arg.y /\ page = 1

\* the renderer drew one chart of its kind at y and returned y - height - 20
ChartDrawn ==
    /\ Len(ops) = 1
    /\ ops[1].k = ChartKind
    /\ ops[1].p = 1
    /\ ops[1].y = arg.y
    /\ ops[1].n = arg.height
    /\ page = 1
    /\ y = arg.y - arg.height - 20 * pt

\* the rows are empty (or no rows at all)
RowsEmpty == query_data.rows = <<>>

\* a field is unset and row 0 gives no key to take for it
FieldsNotInferable ==
    /\ query_data.rows # <<>>
    /\ Falsy(arg.key_field) \/ Falsy(arg.value_field)
    /\ ~query_data.rows[1].dict \/ query_data.rows[1].items = <<>>

\* the sum of the coerced values of the mapping rows within the cap, under
\* the value field passed or else the one taken from row 0
CappedSum ==
    LET vf   == IF ~Falsy(arg.value_field) THEN arg.value_field
                ELSE IF Len(query_data.rows[1].items) > 1
                     THEN query_data.rows[1].items[2].k
                     ELSE query_data.rows[1].items[1].k
        rows == SelectSeq(Take(query_data.rows, ChartCap), LAMBDA r : r.dict)
    IN SumSeq([j \in 1..Len(rows) |-> to_float(rows[j], vf)])

\* the pie renderer was called on values that sum to 0
PieSumZero ==
    /\ arg.fn = "_create_pie_chart"
    /\ query_data.rows # <<>>
    /\ ~FieldsNotInferable
    /\ CappedSum = 0

\* the rows are not a list, or one of them is not a mapping
NotAllMappings ==
    \/ query_data.type # "list"
    \/ \E j \in 1..Len(query_data.rows) : ~query_data.rows[j].dict

\* the rows are not a list, or none of them within the cap is a mapping
NoMappingInCap ==
    \/ query_data.type # "list"
    \/ \A j \in 1..Min(Len(query_data.rows), ChartCap) : ~query_data.rows[j].dict

\* C8 as stated: a chart renderer either draws nothing and returns y, or
\* draws one chart and returns y - height - 20; it draws nothing whenever
\* the rows are empty, are not a sequence of mappings, or the fields cannot
\* be inferred, and the pie renderer also when the values sum to 0; an
\* unchanged y means nothing was drawn.
C8_AsStated ==
    ChartReturned =>
        /\ ChartNoOp \/ ChartDrawn
        /\ (RowsEmpty \/ NotAllMappings \/ FieldsNotInferable \/ PieSumZero) => ChartNoOp
        /\ y = arg.y => ops = <<>>

\* C8 (amended): as C8, with "are not a sequence of mappings" read as: the
\* rows are not a list, or no row within the cap (10 for bar, 8 for pie)
\* is a mapping.  Rows that are not mappings are skipped one by one, and
\* the mappings among them are charted.
C8_ChartOutcomes ==
    ChartReturned =>
        /\ ChartNoOp \/ ChartDrawn
        /\ (RowsEmpty \/ NoMappingInCap \/ FieldsNotInferable \/ PieSumZero) => ChartNoOp
        /\ y = arg.y => ops = <<>>

\* the pie renderer returned its y unchanged on values that cancel out
C8_Witness ==
    /\ ChartReturned
    /\ arg.fn = "_create_pie_chart"
    /\ query_data = List(SignedRows)
    /\ arg.value_field = "amount"
    /\ ChartNoOp

\* the scenario of C9: no executive summary, one metric, three one-line
\* findings, policy Bar, five rows with a number
C9_Scenario ==
    /\ report = [EmptyReport EXCEPT !.key_metrics = <<1>>, !.findings = <<1, 1, 1>>]
    /\ chart_type = "Bar"
    /\ query_data = List(SalesRows(5))

\* what the scenario has drawn when it reaches the footer, whatever the
\* pages: the header, one bar chart of height 200, the metrics title and
\* one card, the table title and its 6 rows, the findings title and 3 items
C9_Content ==
    /\ Len(ops) = 15
    /\ ops[1].k = "header"
    /\ ops[2].k = "bar" /\ ops[2].n = 200 * pt
    /\ ops[3] = Op("title", "metrics", 0, 1, ops[3].y, 0)
    /\ ops[4].k = "card"
    /\ ops[5].k = "title" /\ ops[5].s = "table"
    /\ \A a \in 6..11 : ops[a].k = "row" /\ ops[a].i = a - 6
    /\ ops[12].k = "title" /\ ops[12].s = "findings"
    /\ \A a \in 13..15 : ops[a].k = "item" /\ ops[a].s = "findings" /\ ops[a].i = a - 12
    /\ Len(DrawnKind("footer")) = 0

\* C9 as stated: the scenario is rendered without any page break, all of
\* it on page 1.
C9_AsStated ==
    (C9_Scenario /\ pc = "footer") =>
        /\ C9_Content
        /\ page = 1
        /\ \A a \in 1..Len(ops) : ops[a].p = 1

\* C9 (amended): in the scenario the header, the bar chart, the metric card
\* and the 6-row table are drawn on page 1; the table leaves the cursor
\* under the 8 cm threshold of the findings, so exactly one page break is
\* taken there and the findings title (at 27 cm) and the 3 items are drawn
\* on page 2.
C9_FindingsOnPageTwo ==
    (C9_Scenario /\ pc = "footer") =>
        /\ C9_Content
        /\ \A a \in 1..11 : ops[a].p = 1
        /\ ops[11].y - ops[11].n - 10 * pt < 8 * cm
        /\ ops[12].p = 2 /\ ops[12].y = top_y
        /\ \A a \in 13..15 : ops[a].p = 2
        /\ page = 2

\* the scenario rendered up to the footer
C9_Witness ==
    /\ C9_Scenario
    /\ pc = "footer"
    /\ Len(Drawn("item", "findings")) = 3

\* the step at pc has nothing to draw: its part of the report is empty
EmptyPart ==
    \/ pc = "summary" /\ report.executive_summary.empty
    \/ pc = "metrics" /\ report.key_metrics = <<>>
    \/ pc = "insights" /\ report.insights = <<>>
    \/ pc = "findings" /\ report.findings = <<>>
    \/ pc = "recommendations" /\ report.recommendations = <<>>
    \/ pc = "columns" /\ report.limitations = <<>> /\ report.next_steps = <<>>
    \/ pc \in {"charts", "table"} /\ query_data.rows = <<>>

\* C10: the composer step of an empty optional part (executive summary,
\* metrics, insights, findings, recommendations, the two columns when both
\* are empty, and the chart and table steps without rows) leaves the cursor,
\* the page and the drawing log as they were; an empty part, each of the
\* two columns by itself, never has a title or anything else in the log.
C10_EmptyPartsDrawNothing ==
    [][/\ EmptyPart => (y' = y /\ page' = page /\ ops' = ops)
       /\ \A sec \in {"metrics", "insights", "findings", "recommendations",
                      "limitations", "next_steps"} :
             report[IF sec = "metrics" THEN "key_metrics" ELSE sec] = <<>> =>
                 \A a \in 1..Len(ops') : ops'[a].s # sec
       /\ report.executive_summary.empty => \A a \in 1..Len(ops') : ops'[a].s # "summary"
       /\ query_data.rows = <<>> =>
             \A a \in 1..Len(ops') : ops'[a].s \notin {"chart", "table"}]_vars

\* a report with every optional part empty and no rows, rendered: only the
\* header and the footer are drawn, on page 1
C10_Witness ==
    /\ pc = "saved"
    /\ report = EmptyReport
    /\ query_data = NoData
    /\ page = 1
    /\ y = page_height - header_height - cm \div 2
    /\ Len(ops) = 2
    /\ ops[1].k = "header"
    /\ ops[2].k = "footer"

\* C11: when parsing the report data fails in build_pdf, build_pdf returns
\* an error outcome that carries the parse failure, the renderer is not
\* invoked (nothing is drawn, build_pdf is over), and the output folder
\* and file are as they were: no mkdir, no write.
C11_ParseFailsFast ==
    [][(/\ pc = "build_pdf"
        /\ arg.report_data.kind # "empty"
        /\ ~_parse_report(arg.report_data).ok) =>
          /\ pc' = "done"
          /\ result'.kind = "error"
          /\ result'.stage = "parse"
          /\ ops' = <<>>
          /\ fs' = fs
          /\ ~fs'.mkdir
          /\ fs'.file # "written"]_vars

\* a template text without a title was refused while the output folder
\* does not exist
C11_Witness ==
    /\ pc = "done"
    /\ arg.fn = "build_pdf"
    /\ arg.report_data.kind = "str"
    /\ ~arg.report_data.title
    /\ result.kind = "error"
    /\ ~fs.folder


\* the value field a chart renderer uses: the one passed, else the one
\* taken from row 0
ValueField ==
    IF ~Falsy(arg.value_field) THEN arg.value_field
    ELSE IF Len(query_data.rows[1].items) > 1 THEN query_data.rows[1].items[2].k
    ELSE query_data.rows[1].items[1].k

\* the mapping rows among the first ChartCap rows
RowsCharted == SelectSeq(Take(query_data.rows, ChartCap), LAMBDA r : r.dict)

\* the value to plot for a row: the number its value field converts to,
\* 0 when the field is absent or does not convert
Plotted(row) ==
    IF \E c \in 1..Len(row.items) :
          row.items[c].k = ValueField /\ row.items[c].t \in {"num", "numstr"}
    THEN LET c == CHOOSE c \in 1..Len(row.items) : row.items[c].k = ValueField
         IN row.items[c].v
    ELSE 0

\* C12: a chart renderer never raises on a non-numeric value, and the chart
\* it draws has one label and one value per mapping row within the cap:
\* the numeric conversion of the row's value field when it converts, else 0.
C12_ValuesCoerced ==
    (pc \in {"returned", "failed"} /\ arg.fn \in {"_create_bar_chart", "_create_pie_chart"}) =>
        /\ pc = "returned"
        /\ ops # <<>> =>
              /\ Len(ops[1].vals) = Len(RowsCharted)
              /\ ops[1].i = Len(ops[1].vals)
              /\ \A j \in 1..Len(RowsCharted) : ops[1].vals[j] = Plotted(RowsCharted[j])

\* a chart of a row with a number, a row without the value field and a row
\* with text in it; and a chart of number strings
C12_Witness ==
    /\ ChartReturned
    /\ ops # <<>>
    /\ \/ query_data = List(RaggedRows) /\ ops[1].vals = <<3, 0, 0>>
       \/ arg.value_field = "share" /\ ops[1].vals = <<1, 2>>


\* C13 as stated: in the summary mapping of a successful build_pdf,
\* has_charts is true exactly when a bar or pie chart was drawn into the
\* document.
C13_HasChartsIffDrawn ==
    (pc = "done" /\ result.kind = "info") =>
        (result.info.has_charts <=> \E a \in 1..Len(ops) : ops[a].k \in {"bar", "pie"})

\* the sections the section-entry rule precedes
EntrySections == {"metrics", "table", "insights", "findings", "recommendations", "columns"}

\* the section's threshold: 8 cm before findings and recommendations, 10 cm
\* before the others
Threshold(sec) == IF sec \in {"findings", "recommendations"} THEN 8 * cm ELSE 10 * cm

\* the section has something to show
NonEmpty(sec) ==
    CASE sec = "metrics" -> report.key_metrics # <<>>
      [] sec = "table" -> query_data.type = "list" /\ query_data.rows # <<>>
      [] sec = "insights" -> report.insights # <<>>
      [] sec = "findings" -> report.findings # <<>>
      [] sec = "recommendations" -> report.recommendations # <<>>
      [] sec = "columns" -> report.limitations # <<>> \/ report.next_steps # <<>>

\* C14: before each non-empty section exactly one of two things happens:
\* below the section's threshold a page break is taken and the section
\* title is drawn at 27 cm on the new page, otherwise the title is drawn
\* on the same page 15 below the cursor; so a section title is never drawn
\* lower than threshold - 15.
C14_SectionEntry ==
    [][(pc \in EntrySections /\ NonEmpty(pc)) =>
          /\ Len(ops') > Len(ops)
          /\ SubSeq(ops', 1, Len(ops)) = ops
          /\ LET first == ops'[Len(ops) + 1]
             IN /\ first.k = "title"
                /\ IF y < Threshold(pc)
                   THEN first.p = page + 1 /\ first.y = top_y
                   ELSE first.p = page /\ first.y = y - 15 * pt
                /\ first.y >= Threshold(pc) - 15 * pt]_vars

\* a render where one section was entered with the spacer and a later one
\* with a page break
C14_Witness ==
    /\ pc = "saved"
    /\ \E a, b \in 1..Len(ops) :
          /\ a > 1
          /\ ops[a].k = "title" /\ ops[a].s = "metrics" /\ ops[a].p = 1
          /\ ops[a].y = ops[a - 1].y - ops[a - 1].n - 20 * pt - 15 * pt
          /\ ops[b].k = "title" /\ ops[b].s = "findings" /\ ops[b].p = ops[b - 1].p + 1
          /\ ops[b].y = top_y


\* where a column that starts at y0 ends: 18 below y0 for its title, then
\* 12 per line and a gap of 3 for each of its first 5 items that has lines;
\* y0 itself for a column that is absent
ColumnEnd(y0, items) ==
    IF items = <<>> THEN y0
    ELSE LET shown == SelectSeq(Take(items, 5), LAMBDA n : n > 0)
         IN y0 - 18 * pt - SumSeq([j \in 1..Len(shown) |-> shown[j] * 12 * pt + 3 * pt])

\* the cursor the two-column block starts from, after the section-entry rule
ColumnStart == IF y < 10 * cm THEN top_y ELSE y - 15 * pt

\* C15: both columns start from the same cursor (their titles are at the
\* same height on the same page, and each column's first item is 18 below
\* it whatever the other column holds), and the cursor after the block is
\* the lower of the two column ends minus 10, so never above either end.
C15_ColumnsCursor ==
    [][(pc = "columns" /\ (report.limitations # <<>> \/ report.next_steps # <<>>)) =>
          LET new    == SubSeq(ops', Len(ops) + 1, Len(ops'))
              titles == SelectSeq(new, LAMBDA o : o.k = "title")
              e1     == ColumnEnd(ColumnStart, report.limitations)
              e2     == ColumnEnd(ColumnStart, report.next_steps)
          IN /\ \A a \in 1..Len(titles) : titles[a].y = ColumnStart /\ titles[a].p = page'
             /\ \A a \in 1..Len(new) :
                   (new[a].k = "item" /\ new[a - 1].k = "title") =>
                       new[a].y = ColumnStart - 18 * pt
             /\ Len(titles) = (IF report.limitations # <<>> THEN 1 ELSE 0)
                              + (IF report.next_steps # <<>> THEN 1 ELSE 0)
             /\ y' = Min(e1, e2) - 10 * pt
             /\ y' <= e1 - 10 * pt
             /\ y' <= e2 - 10 * pt]_vars

\* both columns were drawn and the Limitations column, drawn first, is the
\* longer one
C15_Witness ==
    /\ pc = "footer"
    /\ arg.fn = "columns"
    /\ Len(report.limitations) > Len(report.next_steps)
    /\ report.next_steps # <<>>
    /\ \A j \in 1..Len(report.limitations) : report.limitations[j] > 0
    /\ y = ColumnEnd(ops[1].y, report.limitations) - 10 * pt
    /\ y < ColumnEnd(ops[1].y, report.next_steps) - 10 * pt


\* C16: the footer is drawn exactly once in a render: nothing of it is
\* there before the last step, and once the document is saved it is the
\* last thing drawn, on the page current then, which is the last page.
C16_FooterOnce ==
    /\ pc # "saved" => Len(DrawnKind("footer")) = 0
    /\ pc = "saved" =>
          /\ Len(DrawnKind("footer")) = 1
          /\ ops[Len(ops)].k = "footer"
          /\ ops[Len(ops)].p = page
          /\ \A a \in 1..Len(ops) : ops[a].p <= page
          /\ fs.file = "written"

\* a saved render of three pages or more, its footer on the last one and
\* drawings on the earlier ones
C16_Witness ==
    /\ pc = "saved"
    /\ page >= 3
    /\ ops[Len(ops)].k = "footer"
    /\ ops[Len(ops)].p = page
    /\ \E a \in 1..Len(ops) : ops[a].p = page - 1


\* the charts drawn by the step being taken
NewCharts == SelectSeq(SubSeq(ops', Len(ops) + 1, Len(ops')), LAMBDA o : o.k \in {"bar", "pie"})

\* row 0 of the row-set is a mapping with a numeric value
RowZeroNumeric ==
    /\ query_data.type = "list"
    /\ query_data.rows # <<>>
    /\ query_data.rows[1].dict
    /\ \E c \in 1..Len(query_data.rows[1].items) : query_data.rows[1].items[c].t = "num"

\* the position in row 0 of its first numeric value
FirstNumeric ==
    CHOOSE c \in 1..Len(query_data.rows[1].items) :
        /\ query_data.rows[1].items[c].t = "num"
        /\ \A d \in 1..(c - 1) : query_data.rows[1].items[d].t # "num"

\* C17 as stated: every chart the composer draws takes its values from the
\* first key of row 0 with a numeric value in row 0 and its labels from
\* the first key of row 0, and these are two distinct fields; when row 0
\* has no numeric value no chart is drawn.
C17_AsStated ==
    [][pc = "charts" =>
          IF RowZeroNumeric
          THEN \A a \in 1..Len(NewCharts) :
                  /\ NewCharts[a].value_field = query_data.rows[1].items[FirstNumeric].k
                  /\ NewCharts[a].key_field = query_data.rows[1].items[1].k
                  /\ NewCharts[a].key_field # NewCharts[a].value_field
          ELSE ops' = ops /\ y' = y]_vars

\* C17 (amended): every chart the composer draws takes its values from the
\* first key of row 0 with a numeric value in row 0 and its labels from
\* the first key of row 0; the two are one same field exactly when the
\* first key of row 0 is that numeric key.  When row 0 has no numeric
\* value no chart is drawn, whatever the other rows hold.
C17_FieldInference ==
    [][pc = "charts" =>
          IF RowZeroNumeric
          THEN \A a \in 1..Len(NewCharts) :
                  /\ NewCharts[a].value_field = query_data.rows[1].items[FirstNumeric].k
                  /\ NewCharts[a].key_field = query_data.rows[1].items[1].k
                  /\ (NewCharts[a].key_field = NewCharts[a].value_field) <=> (FirstNumeric = 1)
                  /\ NewCharts[a].vals =
                        [j \in 1..Len(NewCharts[a].vals) |->
                            query_data.rows[j].items[FirstNumeric].v]
          ELSE ops' = ops /\ y' = y]_vars

\* charts were drawn of rows with two numeric columns; of rows whose first
\* column is the numeric one; and none of rows where only row 0 lacks a number
C17_Witness ==
    /\ pc = "metrics"
    /\ chart_type = "Both"
    /\ \/ /\ query_data = List(TotalsRows(3))
          /\ Len(DrawnKind("bar")) = 1 /\ Len(DrawnKind("pie")) = 1
          /\ ops[Len(ops)].vals = <<1, 2, 3>>
       \/ /\ query_data = List(NumberFirstRows(3))
          /\ Len(DrawnKind("bar")) = 1
          /\ ops[Len(ops)].key_field = "amount"


\* the call of the table renderer is over
TableOver == pc \in {"returned", "failed"} /\ arg.fn = "_draw_styled_table"

\* C18 as stated: on rows that are empty, not a list, or whose first row is
\* not a mapping, the table renderer draws nothing, no title either, and
\* returns the cursor it was given, also when a title is passed.
C18_TableSilentNoOp ==
    (/\ TableOver
     /\ \/ query_data.rows = <<>>
        \/ query_data.type # "list"
        \/ ~query_data.rows[1].dict) =>
        /\ pc = "returned"
        /\ ops = <<>>
        /\ y = arg.y
        /\ page = 1

\* C19 as stated: the table title is on the page of the table's rows,
\* directly above the header row (20 above its top edge).
C19_TitleWithTable ==
    (TableOver /\ Len(Drawn("title", "table")) > 0 /\ Len(TableRows) > 0) =>
        /\ Drawn("title", "table")[1].p = TableRows[1].p
        /\ TableRows[1].y = Drawn("title", "table")[1].y - 20 * pt

\* C20 as stated: the page number printed in the footer is the number of
\* the page the footer is drawn on, 1 plus the number of page breaks taken.
C20_PageIndicator ==
    pc = "saved" =>
        /\ ops[Len(ops)].k = "footer"
        /\ ops[Len(ops)].i = ops[Len(ops)].p
        /\ ops[Len(ops)].i = page


\* the footer line, 2 cm above the bottom of the page
FooterLine == 2 * cm

\* the baseline of the last text line of a drawn item: the lines of a list
\* item are 14 apart, the first one 8 (insights) or 5 (findings,
\* recommendations) below the item's cursor; the lines of a column item
\* are 12 apart from the column's cursor down
LastLine(o) ==
    CASE o.s = "insights" -> o.y - 8 * pt - (o.n - 1) * line_height
      [] o.s \in {"findings", "recommendations"} -> o.y - 5 * pt - (o.n - 1) * line_height
      [] o.s \in {"limitations", "next_steps"} -> o.y - (o.n - 1) * 12 * pt

\* C21 as stated: nothing is drawn below the footer line of its page: the
\* last text line of every insight, finding, recommendation, limitation
\* and next step, the bottom edge of every metric card and the bottom edge
\* of every table row are at or above 2 cm.
C21_NothingBelowMargin ==
    \A a \in 1..Len(ops) :
        /\ (ops[a].k = "item" /\ ops[a].n > 0) => LastLine(ops[a]) >= FooterLine
        /\ ops[a].k \in {"card", "row"} => ops[a].y - ops[a].n >= FooterLine


====
